---- MODULE Spec2Model ----
(***************************************************************************)
(* The request-processing pipeline of the Whisper speech-to-text service:  *)
(* main.py (POST /transcribe, POST /transcribe-batch, startup) and         *)
(* audio.py (POST /transcriptions).  Every handler is an `async def` that  *)
(* never awaits anything that suspends, so a handler owns the event loop   *)
(* from its first line to its return.                                      *)
(***************************************************************************)
EXTENDS Integers, Sequences, FiniteSets, TLC

VARIABLES whisper_model, storage, next_uuid, loop_owner, runs

vars == <<whisper_model, storage, next_uuid, loop_owner, runs>>

-----------------------------------------------------------------------------
(* Bounds of the model.                                                    *)

MaxRuns == 2
MaxUuid == 2
MaxSegs == 2
MaxSmallBatch == 2

-----------------------------------------------------------------------------
(* Python values.  Optional[T] is None or Some(v).                         *)

None == <<>>
Some(v) == <<v>>
Val(o) == o[1]

\* Truthiness of an Optional[int] (0 is falsy) and of an Optional[str] ("" is falsy).
TruthyInt(o) == o # None /\ Val(o) # 0
TruthyStr(o) == o # None /\ Val(o) # ""

Runs == 1..MaxRuns

-----------------------------------------------------------------------------
(* Program constants.                                                      *)

SUPPORTED_FORMATS ==
  { <<".", "mp3">>, <<".", "wav">>, <<".", "m4a">>, <<".", "mp4">>, <<".", "mpeg">>,
    <<".", "mpga">>, <<".", "webm">>, <<".", "ogg">>, <<".", "flac">> }

max_size == 100 * 1024 * 1024

CompressThreshold == 10 * 1024 * 1024

BatchLimit == 10

\* Parameters of `async def transcribe_audio(file, language, include_segments)`.
TranscribeAudioParams == {"file", "language", "include_segments"}

\* Keyword arguments transcribe_batch passes to transcribe_audio.
BatchCallKwargs == {"file", "language", "task", "temperature", "include_segments"}

\* Declared fields of the two pydantic response models.
MainResponseFields == {"text", "segments", "timestamp"}
AudioResponseFields == {"text", "segments", "timestamp", "duration"}

-----------------------------------------------------------------------------
(* File names are sequences of tokens; "." is the extension separator.     *)

\* str.lower() on the tokens that occur.
Lower(t) ==
  CASE t = "MP3" -> "mp3"
    [] t = "WAV" -> "wav"
    [] OTHER -> t

LowerSeq(s) == [i \in 1..Len(s) |-> Lower(s[i])]

\* os.path.splitext(name)[-1]: the suffix from the last "." on, provided some
\* token other than "." comes before it (leading dots are not an extension).
DotPositions(name) ==
  { i \in 1..Len(name) : name[i] = "." /\ \E j \in 1..(i - 1) : name[j] # "." }

LastDot(name) == CHOOSE i \in DotPositions(name) : \A j \in DotPositions(name) : j <= i

SplitExt(name) ==
  IF DotPositions(name) = {} THEN <<>> ELSE SubSeq(name, LastDot(name), Len(name))

\* f"/tmp/{uuid}{extension}": the uuid and the suffix are all that vary.
TempPath(uuid, extension) == [name |-> uuid, ext |-> extension]

\* compress_audio's output path: splitext(filepath)[0] + "_compressed.mp3".
CompressedPath(filepath) == [name |-> filepath.name, ext |-> <<"_compressed", ".", "mp3">>]

-----------------------------------------------------------------------------
(* Inputs: uploads, hints, engine outcomes.                                *)

FileNames ==
  { None,
    Some(<<"a", ".", "wav">>),
    Some(<<"b", ".", "MP3">>),
    Some(<<"c", ".", "txt">>),
    Some(<<".", "mp3">>) }

\* UploadFile.size as declared by the client; it may be absent or zero.
DeclaredSizes == { None, Some(0), Some(max_size), Some(max_size + 1) }

\* Number of bytes the upload stream really holds.
ActualSizes == { CompressThreshold, CompressThreshold + 1, max_size + 1 }

\* Every declared and actual size for the plain name; the other names, whose
\* handling does not read the stream, carry one stream.
Uploads ==
  [filename : {Some(<<"a", ".", "wav">>)}, size : DeclaredSizes, bytes : ActualSizes]
  \cup [filename : FileNames, size : DeclaredSizes, bytes : {CompressThreshold}]

\* The language hint as sent by the caller: absent, or a code.
LanguageInputs == { None, Some("fr") }

SegTexts == {"hi", "yo"}

\* Texts the engine may emit, in emission order.
Emissions == UNION { [1..n -> SegTexts] : n \in 0..MaxSegs }

DetectedLanguages == {"en"}

EngineFailures == {"CUDA out of memory"}

\* Uploads used for batches: one the single-file pipeline accepts, one it rejects.
GoodUpload == [filename |-> Some(<<"a", ".", "wav">>), size |-> None, bytes |-> CompressThreshold]
BadUpload == [filename |-> Some(<<"c", ".", "txt">>), size |-> None, bytes |-> CompressThreshold]

AtMostOneBad(fs) == Cardinality({ i \in DOMAIN fs : fs[i] = BadUpload }) <= 1

\* Every short batch, the batches at the limit with at most one bad item, and
\* the batch just over the limit.
Batches ==
  UNION { [1..n -> {GoodUpload, BadUpload}] : n \in 0..MaxSmallBatch }
  \cup { fs \in [1..BatchLimit -> {GoodUpload, BadUpload}] : AtMostOneBad(fs) }
  \cup { [i \in 1..(BatchLimit + 1) |-> GoodUpload] }

-----------------------------------------------------------------------------
(* Exceptions and responses.                                               *)

HTTPException(status_code, detail) ==
  [type |-> "HTTPException", status |-> status_code, detail |-> detail]

Exception(type, msg) == [type |-> type, status |-> 0, detail |-> msg]

\* str(e): starlette renders an HTTPException as "<status>: <detail>".
Str(e) ==
  IF e.type = "HTTPException" THEN ToString(e.status) \o ": " \o e.detail ELSE e.detail

\* What the client receives when `e` leaves the handler: an HTTPException becomes
\* its status and detail, anything else the server's bare 500.
ErrorResponse(e) ==
  IF e.type = "HTTPException"
  THEN [status |-> e.status, detail |-> e.detail, body |-> None]
  ELSE [status |-> 500, detail |-> "Internal Server Error", body |-> None]

OkResponse(body) == [status |-> 200, detail |-> "", body |-> Some(body)]

NoResponse == [status |-> 0, detail |-> "", body |-> None]

-----------------------------------------------------------------------------
(* pydantic: a model keeps its declared fields and ignores every other     *)
(* keyword; an omitted Optional field defaults to None and the timestamp   *)
(* to "now".                                                               *)

FieldDefault(f) == IF f = "timestamp" THEN Some("now") ELSE None

Construct(fields, data) ==
  [f \in fields |-> IF f \in DOMAIN data THEN data[f] ELSE FieldDefault(f)]

\* main.py's TranscriptionResponse(**data)
MainTranscriptionResponse(data) == Construct(MainResponseFields, data)

\* audio.py's TranscriptionResponse(**data)
AudioTranscriptionResponse(data) == Construct(AudioResponseFields, data)

-----------------------------------------------------------------------------
(* The engine's segment stream is a generator: what has been iterated is   *)
(* gone.                                                                   *)

Generator(items) == [items |-> items, pos |-> 0]

\* The items a fresh iteration over g yields.
Remaining(g) == SubSeq(g.items, g.pos + 1, Len(g.items))

\* g after a `for` loop ran over it to the end.
Exhausted(g) == [g EXCEPT !.pos = Len(g.items)]

\* ' '.join(texts)
RECURSIVE Join(_)
Join(texts) ==
  IF Len(texts) = 0 THEN ""
  ELSE IF Len(texts) = 1 THEN texts[1]
  ELSE texts[1] \o " " \o Join(Tail(texts))

SegmentsOf(texts) == [i \in 1..Len(texts) |-> [id |-> i, text |-> texts[i]]]

TextsOf(segs) == [i \in 1..Len(segs) |-> segs[i].text]

-----------------------------------------------------------------------------
(* One request in flight: the handler's arguments, locals and position.    *)

IdleRun ==
  [ pc |-> "idle",
    endpoint |-> "none",
    file |-> None,
    hint |-> None,
    language |-> None,
    include_segments |-> FALSE,
    local_model |-> None,
    filepath |-> None,
    saved |-> None,
    engine_audio |-> None,
    segments |-> Generator(<<>>),
    information |-> None,
    emitted |-> <<>>,
    files |-> <<>>,
    idx |-> 0,
    results |-> <<>>,
    origins |-> <<>>,
    fault |-> None,
    steps |-> <<>>,
    response |-> NoResponse ]

\* The handler that runs the single-file pipeline of main.py (directly, or
\* called from the batch loop) as against audio.py's.
IsMain(run) == run.endpoint \in {"transcribe", "batch"}

InBatch(run) == run.endpoint = "batch"

Step(run, name) == [run EXCEPT !.steps = Append(@, name)]

\* The sentinel transcribe_batch stores for an item whose call raised e.
Sentinel(e) ==
  MainTranscriptionResponse(
    [text |-> "Error: " \o Str(e), language |-> None, segments |-> None, duration |-> 0])

\* A slip: the item's exception ends the whole batch request.
OnItemException_Abort(run, e) ==
  [run EXCEPT !.response = ErrorResponse(e), !.pc = "done"]

\* transcribe_batch's `except Exception as e`: the sentinel takes the item's
\* place and the loop goes on.
OnItemException(run, e) ==
  [run EXCEPT !.results = Append(@, Sentinel(e)),
              !.origins = Append(@, run.idx),
              !.pc = "batch_loop"]

\* transcribe_batch's `results.append(result)`.
OnItemResult(run, result) ==
  [run EXCEPT !.results = Append(@, result),
              !.origins = Append(@, run.idx),
              !.pc = "batch_loop"]

\* `raise e` in the single-file pipeline: it ends the request with the error's
\* response, or, inside the batch loop, lands in the loop's except clause.
Raise(run, e) ==
  IF InBatch(run) THEN OnItemException(run, e)
  ELSE [run EXCEPT !.response = ErrorResponse(e), !.pc = "done"]

\* `return result` in the single-file pipeline.
Return(run, result) ==
  IF InBatch(run) THEN OnItemResult(run, result)
  ELSE [run EXCEPT !.response = OkResponse(result), !.pc = "done"]

\* Python binds a call only if every keyword names a parameter.
CallBinds(kwargs, params) == kwargs \subseteq params

-----------------------------------------------------------------------------
(* Checks of the pipeline.                                                 *)

\* A slip: a name without an extension skips the allow-list.
IsSupported_EmptyPasses(file_extension) ==
  file_extension = <<>> \/ file_extension \in SUPPORTED_FORMATS

IsSupported(file_extension) == file_extension \in SUPPORTED_FORMATS

\* A slip: the ceiling compared one byte too high.
DeclaredTooLarge_OffByOne(size) == TruthyInt(size) /\ Val(size) > max_size + 1

\* `file.size and file.size > max_size`
DeclaredTooLarge(size) == TruthyInt(size) /\ Val(size) > max_size

\* A slip: `>=` for `>`.
NeedsCompress_Inclusive(stored_size) == stored_size >= CompressThreshold

\* `os.path.getsize(filepath) > 10 * 1024 * 1024`
NeedsCompress(stored_size) == stored_size > CompressThreshold

\* os.path.getsize of the artifact the run has just written: the whole stream
\* went into it, under a name no other run uses.
StoredSize(run) == Val(run.file).bytes

\* `language if language else information.language`
ResolveLanguage(language, information) ==
  IF TruthyStr(language) THEN language ELSE Some(information.language)

\* A handler runs only while it holds the event loop: none of them awaits
\* anything that yields it.
HoldsLoop(r) == loop_owner = r

LoopFree == loop_owner = 0

-----------------------------------------------------------------------------
Init ==
  /\ whisper_model = None
  /\ storage = {}
  /\ next_uuid = 1
  /\ loop_owner = 0
  /\ runs = [r \in Runs |-> IdleRun]

\* startup_event: loads the model into the process-wide handle, or raises and
\* leaves it None.
Startup ==
  /\ whisper_model = None
  /\ LoopFree
  /\ \E ok \in BOOLEAN : whisper_model' = IF ok THEN Some("small") ELSE None
  /\ UNCHANGED <<storage, next_uuid, loop_owner, runs>>

\* A request reaches the server and waits for the event loop.
Arrive(r) ==
  /\ runs[r].pc = "idle"
  /\ runs' = [runs EXCEPT ![r].pc = "pending"]
  /\ UNCHANGED <<whisper_model, storage, next_uuid, loop_owner>>

\* POST /transcribe: transcribe_audio(file, language=None, include_segments=False)
InvokeTranscribe(r) ==
  /\ runs[r].pc = "pending"
  /\ LoopFree
  /\ next_uuid <= MaxUuid
  /\ \E f \in Uploads, lang \in LanguageInputs, inc \in BOOLEAN :
       runs' = [runs EXCEPT ![r] =
                  [IdleRun EXCEPT !.pc = "check_model", !.endpoint = "transcribe",
                                  !.steps = <<"enter">>,
                                  !.file = Some(f), !.hint = lang, !.language = lang,
                                  !.include_segments = inc]]
  /\ loop_owner' = r
  /\ UNCHANGED <<whisper_model, storage, next_uuid>>

\* POST /transcriptions: transcriptions(file, model="base", language="zh")
InvokeTranscriptions(r) ==
  /\ runs[r].pc = "pending"
  /\ LoopFree
  /\ next_uuid <= MaxUuid
  /\ \E f \in Uploads, lang \in LanguageInputs :
       runs' = [runs EXCEPT ![r] =
                  [IdleRun EXCEPT !.pc = "check_model", !.endpoint = "transcriptions",
                                  !.steps = <<"enter">>,
                                  !.file = Some(f), !.hint = lang,
                                  !.language = IF lang = None THEN Some("zh") ELSE lang,
                                  !.include_segments = FALSE]]
  /\ loop_owner' = r
  /\ UNCHANGED <<whisper_model, storage, next_uuid>>

\* POST /transcribe-batch: transcribe_batch(files, language=None, ...)
InvokeBatch(r) ==
  /\ runs[r].pc = "pending"
  /\ LoopFree
  /\ \E fs \in Batches, lang \in LanguageInputs :
       runs' = [runs EXCEPT ![r] =
                  [IdleRun EXCEPT !.pc = "batch_check", !.endpoint = "batch",
                                  !.files = fs, !.hint = lang, !.language = lang]]
  /\ loop_owner' = r
  /\ UNCHANGED <<whisper_model, storage, next_uuid>>

-----------------------------------------------------------------------------
(* The single-file pipeline: transcribe_audio (main.py) and transcriptions *)
(* (audio.py).                                                             *)

\* main.py: `if whisper_model is None: raise HTTPException(503, ...)`
CheckModel(r) ==
  LET run == runs[r] IN
  /\ run.pc = "check_model"
  /\ IsMain(run)
  /\ HoldsLoop(r)
  /\ runs' = [runs EXCEPT ![r] =
                IF whisper_model = None
                THEN Raise(run, HTTPException(503, "Whisper model not loaded"))
                ELSE [run EXCEPT !.pc = "validate", !.local_model = whisper_model]]
  /\ UNCHANGED <<whisper_model, storage, next_uuid, loop_owner>>

\* audio.py: `whisper_model = load_model(model if model else "base")`, which
\* returns the model or re-raises what loading it raised.
LoadModel(r) ==
  LET run == Step(runs[r], "load_model") IN
  /\ runs[r].pc = "check_model"
  /\ ~IsMain(runs[r])
  /\ HoldsLoop(r)
  /\ \E ok \in BOOLEAN :
       runs' = [runs EXCEPT ![r] =
                  IF ok
                  THEN [run EXCEPT !.pc = "validate", !.local_model = Some("base")]
                  ELSE Raise([run EXCEPT !.fault = Some("model load failed")],
                             Exception("RuntimeError", "model load failed"))]
  /\ UNCHANGED <<whisper_model, storage, next_uuid, loop_owner>>

\* The filename, extension and declared-size checks.
Validate(r) ==
  LET run == runs[r]
      file == Val(run.file)
  IN
  /\ run.pc = "validate"
  /\ HoldsLoop(r)
  /\ runs' = [runs EXCEPT ![r] =
                IF file.filename = None
                THEN Raise(run, HTTPException(400, "Filename is required"))
                ELSE IF ~IsSupported(LowerSeq(SplitExt(Val(file.filename))))
                THEN Raise(run, HTTPException(400, "Unsupported file format"))
                ELSE IF DeclaredTooLarge(file.size)
                THEN Raise(run, HTTPException(413, "File size too large. Maximum allowed size is 100MB"))
                ELSE [run EXCEPT !.pc = "save"]]
  /\ UNCHANGED <<whisper_model, storage, next_uuid, loop_owner>>

\* save_temp_file: a fresh uuid, the upload's own extension, the stream's bytes.
\* open() or the write can fail, the latter leaving the file open() created;
\* nothing catches that.
SaveTempFile(r) ==
  LET run == Step(runs[r], "save")
      file == Val(run.file)
      filepath == TempPath(next_uuid, SplitExt(Val(file.filename)))
  IN
  /\ runs[r].pc = "save"
  /\ HoldsLoop(r)
  /\ IF file.filename = None
     THEN /\ runs' = [runs EXCEPT ![r] = Raise(run, HTTPException(400, "Filename is required"))]
          /\ UNCHANGED <<storage, next_uuid>>
     ELSE \E ok \in BOOLEAN :
            IF ok
            THEN /\ storage' = storage \cup {filepath}
                 /\ next_uuid' = next_uuid + 1
                 /\ runs' = [runs EXCEPT ![r] =
                               [run EXCEPT !.pc = "normalize", !.filepath = Some(filepath),
                                           !.saved = Some(filepath)]]
            ELSE /\ runs' = [runs EXCEPT ![r] =
                               Raise([run EXCEPT !.fault = Some("No space left on device")],
                                     Exception("OSError", "No space left on device"))]
                 /\ \E created \in BOOLEAN :
                      IF created
                      THEN storage' = storage \cup {filepath} /\ next_uuid' = next_uuid + 1
                      ELSE UNCHANGED <<storage, next_uuid>>
  /\ UNCHANGED <<whisper_model, loop_owner>>

\* A normalization that moves the original to the output path.
Export_ReplacesOriginal(store, filepath, compressed_path) ==
  (store \ {filepath}) \cup {compressed_path}

\* `audio.export(compressed_path, format="mp3", bitrate="32k")`: a new file at
\* compressed_path; the file at filepath is only read.
Export(store, filepath, compressed_path) == store \cup {compressed_path}

\* `if os.path.getsize(filepath) > 10 MiB: filepath = compress_audio(filepath)`.
\* compress_audio decodes the artifact and exports a second one; decoding can
\* fail, and nothing catches that.
Normalize(r) ==
  LET run == runs[r]
      filepath == Val(run.filepath)
      compressed_path == CompressedPath(filepath)
  IN
  /\ run.pc = "normalize"
  /\ HoldsLoop(r)
  /\ IF NeedsCompress(StoredSize(run))
     THEN \E ok \in BOOLEAN :
            IF ok
            THEN /\ storage' = Export(storage, filepath, compressed_path)
                 /\ runs' = [runs EXCEPT ![r] =
                               [Step(run, "compress") EXCEPT !.pc = "transcribe",
                                                             !.filepath = Some(compressed_path)]]
            ELSE /\ runs' = [runs EXCEPT ![r] =
                               Raise([Step(run, "compress") EXCEPT !.fault = Some("Decoding failed")],
                                     Exception("CouldntDecodeError", "Decoding failed"))]
                 /\ UNCHANGED storage
     ELSE /\ runs' = [runs EXCEPT ![r].pc = "transcribe"]
          /\ UNCHANGED storage
  /\ UNCHANGED <<whisper_model, next_uuid, loop_owner>>

\* `segments, information = whisper_model.transcribe(audio=filepath, ...)` inside
\* the try: the engine returns a segment generator and its metadata, or fails,
\* and `except Exception` wraps the failure in a 500.
Transcribe(r) ==
  LET run == [Step(runs[r], "transcribe") EXCEPT !.engine_audio = runs[r].filepath] IN
  /\ runs[r].pc = "transcribe"
  /\ HoldsLoop(r)
  /\ \/ \E texts \in Emissions, lang \in DetectedLanguages :
          runs' = [runs EXCEPT ![r] =
                     [run EXCEPT !.pc = "assemble",
                                 !.segments = Generator(SegmentsOf(texts)),
                                 !.emitted = texts,
                                 !.information = Some([language |-> lang, duration |-> 3])]]
     \/ \E msg \in EngineFailures :
          runs' = [runs EXCEPT ![r] =
                     Raise([run EXCEPT !.fault = Some(msg)],
                           HTTPException(500, "Transcription failed: " \o Str(Exception("RuntimeError", msg))))]
  /\ UNCHANGED <<whisper_model, storage, next_uuid, loop_owner>>

\* main.py lines 264-275: the debug loop iterates `segments`, then the text is
\* joined from a second iteration over the same object.
MainAssemble(run) ==
  LET logged == Exhausted(run.segments)
      rest == Remaining(logged)
      response_data ==
        [ text |-> Join(TextsOf(rest)),
          segments |-> IF run.include_segments THEN Some(rest) ELSE None,
          language |-> ResolveLanguage(run.language, Val(run.information)) ]
  IN MainTranscriptionResponse(response_data)

\* audio.py lines 199-229: `segments = list(segments)` first, then the loop
\* builds `results` and the text is joined from `results`.
AudioAssemble(run) ==
  LET segments == Remaining(run.segments)
      results == segments
      response_data ==
        [ text |-> Join(TextsOf(results)),
          segments |-> IF run.include_segments THEN Some(results) ELSE None,
          language |-> ResolveLanguage(run.language, Val(run.information)),
          duration |-> Val(run.information).duration ]
  IN AudioTranscriptionResponse(response_data)

Assemble(r) ==
  LET run == runs[r] IN
  /\ run.pc = "assemble"
  /\ HoldsLoop(r)
  /\ runs' = [runs EXCEPT ![r] =
                Return(run, IF IsMain(run) THEN MainAssemble(run) ELSE AudioAssemble(run))]
  /\ UNCHANGED <<whisper_model, storage, next_uuid, loop_owner>>

\* The handler has returned or raised: the response goes out, the task ends and
\* the event loop is free again.
Respond(r) ==
  /\ runs[r].pc = "done"
  /\ HoldsLoop(r)
  /\ runs' = [runs EXCEPT ![r] = IdleRun]
  /\ loop_owner' = 0
  /\ UNCHANGED <<whisper_model, storage, next_uuid>>

-----------------------------------------------------------------------------
(* transcribe_batch.                                                       *)

BatchCheck(r) ==
  LET run == runs[r] IN
  /\ run.pc = "batch_check"
  /\ HoldsLoop(r)
  /\ runs' = [runs EXCEPT ![r] =
                IF whisper_model = None
                THEN [run EXCEPT !.response = ErrorResponse(HTTPException(503, "Whisper model not loaded")),
                                 !.pc = "done"]
                ELSE IF Len(run.files) > BatchLimit
                THEN [run EXCEPT !.response = ErrorResponse(HTTPException(400, "Batch size limited to 10 files")),
                                 !.pc = "done"]
                ELSE [run EXCEPT !.pc = "batch_loop"]]
  /\ UNCHANGED <<whisper_model, storage, next_uuid, loop_owner>>

\* One iteration of `for file in files`: the call to transcribe_audio with the
\* batch's keywords.  A call that does not bind raises TypeError inside the try.
BatchItem(r) ==
  LET run == [runs[r] EXCEPT !.idx = @ + 1]
      file == run.files[run.idx]
  IN
  /\ runs[r].pc = "batch_loop"
  /\ runs[r].idx < Len(runs[r].files)
  /\ HoldsLoop(r)
  /\ runs' = [runs EXCEPT ![r] =
                IF CallBinds(BatchCallKwargs, TranscribeAudioParams)
                THEN [Step(run, "enter") EXCEPT !.pc = "check_model", !.file = Some(file),
                                                !.filepath = None, !.saved = None,
                                                !.engine_audio = None]
                ELSE OnItemException(run,
                       Exception("TypeError",
                                 "transcribe_audio() got an unexpected keyword argument 'task'"))]
  /\ UNCHANGED <<whisper_model, storage, next_uuid, loop_owner>>

\* `return results` once the loop has taken every file.
BatchReturn(r) ==
  LET run == runs[r] IN
  /\ run.pc = "batch_loop"
  /\ run.idx >= Len(run.files)
  /\ HoldsLoop(r)
  /\ runs' = [runs EXCEPT ![r] = [run EXCEPT !.response = OkResponse(run.results), !.pc = "done"]]
  /\ UNCHANGED <<whisper_model, storage, next_uuid, loop_owner>>

-----------------------------------------------------------------------------
Next ==
  \/ Startup
  \/ \E r \in Runs :
       \/ Arrive(r)
       \/ InvokeTranscribe(r)
       \/ InvokeTranscriptions(r)
       \/ InvokeBatch(r)
       \/ CheckModel(r)
       \/ LoadModel(r)
       \/ Validate(r)
       \/ SaveTempFile(r)
       \/ Normalize(r)
       \/ Transcribe(r)
       \/ Assemble(r)
       \/ Respond(r)
       \/ BatchCheck(r)
       \/ BatchItem(r)
       \/ BatchReturn(r)

Spec == Init /\ [][Next]_vars

-----------------------------------------------------------------------------
(* Vocabulary of the properties.                                           *)

Single(run) == run.endpoint \in {"transcribe", "transcriptions"}

Finished(run) == run.pc = "done"

Succeeded(run) == Finished(run) /\ run.response.status = 200

Result(run) == Val(run.response.body)

\* The segment texts with one space between neighbours, built from the left.
RECURSIVE SpaceJoined(_)
SpaceJoined(texts) ==
  IF Len(texts) = 0 THEN ""
  ELSE IF Len(texts) = 1 THEN texts[1]
  ELSE SpaceJoined(SubSeq(texts, 1, Len(texts) - 1)) \o " " \o texts[Len(texts)]

\* The texts a transcription of some engine output can carry.
RealTexts == { SpaceJoined(texts) : texts \in Emissions }

Has(res, f) == f \in DOMAIN res

\* A sentinel: an error text, no segments, and neither a language nor a
\* duration other than zero.
IsSentinel(res) ==
  /\ res.text \notin RealTexts
  /\ res.segments = None
  /\ Has(res, "language") => res.language = None
  /\ Has(res, "duration") => res.duration = 0

IsReal(res) == res.text \in RealTexts

BadItems(files) == { i \in DOMAIN files : files[i] = BadUpload }

Count(steps, name) == Cardinality({ i \in DOMAIN steps : steps[i] = name })

-----------------------------------------------------------------------------
\* C1: with the engine loaded, a batch of at most 10 items in which exactly one
\* item is a bad upload and nothing else fails returns one result per item,
\* a sentinel at the bad item's position and a real transcription result at
\* every other position.
C1_OneFailureIsolated ==
  \A r \in Runs :
    LET run == runs[r] IN
    ( /\ InBatch(run) /\ Finished(run)
      /\ whisper_model # None
      /\ Len(run.files) <= BatchLimit
      /\ Cardinality(BadItems(run.files)) = 1
      /\ run.fault = None )
    => /\ run.response.status = 200
       /\ Len(Result(run)) = Len(run.files)
       /\ \A i \in DOMAIN run.files :
            IF i \in BadItems(run.files)
            THEN IsSentinel(Result(run)[i])
            ELSE IsReal(Result(run)[i])

\* C2: the text of every successful single-file transcription is the segment
\* texts the engine emitted, joined by single spaces in emission order (the
\* empty string when it emitted none), on /transcribe and /transcriptions.
C2_TextIsSpaceJoin ==
  \A r \in Runs :
    LET run == runs[r] IN
    (Single(run) /\ Succeeded(run)) => Result(run).text = SpaceJoined(run.emitted)

\* C3: a successful result carries a language: the caller's hint verbatim when
\* the caller gave one, the engine's detected language when it gave none.
C3_LanguageCarried ==
  \A r \in Runs :
    LET run == runs[r] IN
    (Single(run) /\ Succeeded(run))
    => /\ Has(Result(run), "language")
       /\ Result(run).language =
            IF run.hint # None THEN run.hint ELSE Some(Val(run.information).language)

-----------------------------------------------------------------------------
\* The extension of the run's upload is outside the allow-list.
BadExtension(run) ==
  /\ run.file # None
  /\ Val(run.file).filename # None
  /\ LowerSeq(SplitExt(Val(Val(run.file).filename))) \notin SUPPORTED_FORMATS

\* The engine was there for the run: main.py found the process-wide model
\* loaded, audio.py's load_model returned one.
EngineAvailable(run) == run.local_model # None

NeverSaved(run) == run.saved = None /\ Count(run.steps, "save") = 0

\* C4 as stated: every single-file request whose extension is outside the
\* allow-list ends in 400 UnsupportedFormat without save_temp_file being reached.
C4_AsStated ==
  \A r \in Runs :
    LET run == runs[r] IN
    (Single(run) /\ Finished(run) /\ BadExtension(run))
    => /\ run.response.status = 400
       /\ run.response.detail = "Unsupported file format"
       /\ NeverSaved(run)

\* C4: a single-file request whose extension is outside the allow-list never
\* reaches save_temp_file and never succeeds; when the engine is available to
\* it, it ends in 400 UnsupportedFormat, and otherwise in the engine's 503
\* (main.py) or the load failure's 500 (audio.py).
C4_BadExtensionNeverSaved ==
  \A r \in Runs :
    LET run == runs[r] IN
    (Single(run) /\ BadExtension(run))
    => /\ NeverSaved(run)
       /\ run.pc \notin {"save", "normalize", "transcribe", "assemble"}
       /\ Finished(run) =>
            IF EngineAvailable(run)
            THEN /\ run.response.status = 400
                 /\ run.response.detail = "Unsupported file format"
            ELSE run.response.status = IF IsMain(run) THEN 503 ELSE 500

\* A request with an unsupported extension, served with the engine available,
\* has been answered 400.
C4_Witness ==
  \E r \in Runs :
    /\ Single(runs[r]) /\ Finished(runs[r]) /\ BadExtension(runs[r])
    /\ EngineAvailable(runs[r])
    /\ runs[r].response.status = 400

\* The declared size of the run's upload is over 100 MiB.
DeclaredOver(run) ==
  /\ run.file # None
  /\ Val(run.file).size # None
  /\ Val(Val(run.file).size) > 100 * 1024 * 1024

\* C5 as stated: every single-file request whose declared size is over 100 MiB
\* ends in 413 PayloadTooLarge before any artifact is created.
C5_AsStated ==
  \A r \in Runs :
    LET run == runs[r] IN
    (Single(run) /\ Finished(run) /\ DeclaredOver(run))
    => /\ run.response.status = 413
       /\ NeverSaved(run)

\* C5: a single-file request whose declared size is over 100 MiB fails before
\* any artifact is created; the failure is 413 PayloadTooLarge when the engine
\* is available and the filename is present with an extension in the
\* allow-list, and the earlier check's error otherwise.
C5_OversizeNeverSaved ==
  \A r \in Runs :
    LET run == runs[r] IN
    (Single(run) /\ DeclaredOver(run))
    => /\ NeverSaved(run)
       /\ run.pc \notin {"save", "normalize", "transcribe", "assemble"}
       /\ Finished(run) =>
            /\ run.response.status # 200
            /\ (EngineAvailable(run) /\ Val(run.file).filename # None /\ ~BadExtension(run))
                 => run.response.status = 413

\* An oversize upload with a supported extension has been answered 413.
C5_Witness ==
  \E r \in Runs :
    /\ Single(runs[r]) /\ Finished(runs[r]) /\ DeclaredOver(runs[r])
    /\ ~BadExtension(runs[r])
    /\ runs[r].response.status = 413

\* Position of the first occurrence of a step in a run's history (0 if none).
FirstAt(steps, name) ==
  IF Count(steps, name) = 0 THEN 0
  ELSE CHOOSE i \in DOMAIN steps :
         steps[i] = name /\ \A j \in DOMAIN steps : steps[j] = name => i <= j

\* C6: in every run that reached the engine call, compress_audio ran, and ran
\* before the call, exactly when the stored artifact is larger than 10 MiB;
\* the engine was given the compressed artifact if it ran and the saved one
\* otherwise, and the artifact it was given is in storage.
C6_NormalizeIffLarge ==
  \A r \in Runs :
    LET run == runs[r]
        ran == Count(run.steps, "compress") > 0
    IN
    (~InBatch(run) /\ Count(run.steps, "transcribe") > 0)
    => /\ ran <=> (Val(run.file).bytes > 10 * 1024 * 1024)
       /\ ran => FirstAt(run.steps, "compress") < FirstAt(run.steps, "transcribe")
       /\ run.engine_audio = IF ran THEN Some(CompressedPath(Val(run.saved))) ELSE run.saved
       /\ Val(run.engine_audio) \in storage

\* An artifact one byte over 10 MiB went through compress_audio and the engine
\* was called on the compressed one.
C6_Witness ==
  \E r \in Runs :
    /\ Count(runs[r].steps, "transcribe") > 0
    /\ Count(runs[r].steps, "compress") > 0
    /\ Val(runs[r].file).bytes = CompressThreshold + 1
    /\ runs[r].engine_audio = Some(CompressedPath(Val(runs[r].saved)))

-----------------------------------------------------------------------------
\* The items of a batch that the single-file pipeline was entered for.
Processed(run) == Count(run.steps, "enter")

\* C7, for requests served with the engine loaded: a batch of more than 10
\* files ends in 400 BatchTooLarge with no item processed, and a batch of
\* exactly 10 files is accepted and the pipeline runs for each of its items.
C7_LimitAndProcessing ==
  \A r \in Runs :
    LET run == runs[r] IN
    (InBatch(run) /\ Finished(run) /\ whisper_model # None)
    => /\ Len(run.files) > BatchLimit =>
            /\ run.response.status = 400
            /\ run.response.detail = "Batch size limited to 10 files"
            /\ run.idx = 0 /\ run.results = <<>> /\ Processed(run) = 0
       /\ Len(run.files) = BatchLimit =>
            /\ run.response.status = 200
            /\ Processed(run) = Len(run.files)

\* C8: with the engine loaded, a batch of at most 10 files is never aborted by
\* an item: while the loop runs there is one result per file taken, the i-th
\* from the i-th file, and the request ends in 200 with one result per file.
C8_BatchNeverAborts ==
  \A r \in Runs :
    LET run == runs[r] IN
    (InBatch(run) /\ whisper_model # None /\ Len(run.files) <= BatchLimit)
    => /\ run.pc = "batch_loop" =>
            /\ Len(run.results) = run.idx
            /\ run.origins = [i \in 1..run.idx |-> i]
       /\ Finished(run) =>
            /\ run.response.status = 200
            /\ Result(run) = run.results
            /\ Len(run.results) = Len(run.files)
            /\ run.origins = [i \in 1..Len(run.files) |-> i]

\* A batch whose first item failed has returned, with a result for the item
\* after it as well.
C8_Witness ==
  \E r \in Runs :
    /\ InBatch(runs[r]) /\ Succeeded(runs[r])
    /\ Len(runs[r].files) >= 2
    /\ 1 \in BadItems(runs[r].files)
    /\ IsSentinel(Result(runs[r])[1])
    /\ Len(Result(runs[r])) = Len(runs[r].files)

\* C9: a failed single-file request is answered with the error mapped from
\* its cause: 500 with the cause in the message for a failure of
\* save_temp_file, compress_audio or the engine, 503 when the engine is
\* unavailable, 400 for a missing filename or an unsupported extension, 413
\* for an oversize payload.
C9_ErrorsMapped ==
  \A r \in Runs :
    LET run == runs[r] IN
    (Single(run) /\ Finished(run) /\ run.response.status # 200)
    => IF ~EngineAvailable(run) THEN run.response.status = 503
       ELSE IF run.fault # None
       THEN /\ run.response.status = 500
            /\ run.response.detail = "Transcription failed: " \o Val(run.fault)
       ELSE IF Val(run.file).filename = None \/ BadExtension(run)
       THEN run.response.status = 400
       ELSE run.response.status = 413

\* The run is inside a blocking call: the upload read of save_temp_file or the
\* engine call.
Stalled(run) == run.pc \in {"save", "transcribe"}

\* The handler of a waiting request can start.
CanStart(r) == ENABLED (InvokeTranscribe(r) \/ InvokeTranscriptions(r) \/ InvokeBatch(r))

\* C10: while one run is inside its upload read or its engine call, every
\* other request that is waiting for its handler can start.
C10_SlowRunBlocksOnlyItself ==
  \A r1, r2 \in Runs :
    (r1 # r2 /\ Stalled(runs[r1]) /\ runs[r2].pc = "pending") => CanStart(r2)

-----------------------------------------------------------------------------
\* The upload's stream is over 100 MiB while its declared size, absent, zero
\* or understated, passes the declared-size check.
UndeclaredOversize(run) ==
  /\ run.file # None
  /\ Val(run.file).bytes > 100 * 1024 * 1024
  /\ Val(run.file).size = None \/ Val(Val(run.file).size) <= 100 * 1024 * 1024

\* C11: a single-file request whose stored artifact is over 100 MiB, its
\* declared size having passed, is rejected after save_temp_file: it reaches
\* neither compress_audio nor the engine call, and it ends in 413.
C11_CeilingAfterSave ==
  \A r \in Runs :
    LET run == runs[r] IN
    (Single(run) /\ UndeclaredOversize(run) /\ run.saved # None)
    => /\ Count(run.steps, "compress") = 0
       /\ Count(run.steps, "transcribe") = 0
       /\ Finished(run) => run.response.status = 413

-----------------------------------------------------------------------------
\* The request is one the validation rejects: its filename is missing or its
\* extension is not in SUPPORTED_FORMATS.
InvalidName(run) ==
  /\ run.file # None
  /\ Val(run.file).filename = None \/ BadExtension(run)

\* C12: on both single-file endpoints a request with a missing filename or an
\* unsupported extension has, at every moment up to and including its
\* rejection, loaded no engine model, written nothing to storage, normalized
\* nothing and invoked no engine.
C12_RejectedBeforeSideEffects ==
  \A r \in Runs :
    LET run == runs[r] IN
    (Single(run) /\ InvalidName(run))
    => /\ Count(run.steps, "load_model") = 0
       /\ Count(run.steps, "save") = 0
       /\ Count(run.steps, "compress") = 0
       /\ Count(run.steps, "transcribe") = 0

-----------------------------------------------------------------------------
\* Normalization completed for the run: filepath was rebound to the output of
\* compress_audio.
Normalized(run) ==
  /\ run.saved # None
  /\ run.filepath = Some(CompressedPath(Val(run.saved)))

\* Every artifact a run was handed is in storage: the original save_temp_file
\* returned, and beside it, under another path, the normalized one.
ArtifactsKept ==
  \A r \in Runs :
    LET run == runs[r] IN
    run.saved # None
    => /\ Val(run.saved) \in storage
       /\ Normalized(run) => /\ CompressedPath(Val(run.saved)) \in storage
                             /\ CompressedPath(Val(run.saved)) # Val(run.saved)

\* C13: no step removes an artifact, so storage only grows over any sequence
\* of single and batch requests, and at every moment, every exit included, a
\* run whose save_temp_file returned finds its original in storage, together
\* with the normalized artifact once compress_audio returned.
C13_ArtifactsOnlyGrow ==
  /\ []ArtifactsKept
  /\ [][storage \subseteq storage']_vars

\* A run that was normalized and whose engine call then failed has answered
\* 500 with both of its artifacts in storage, next to the artifact an earlier
\* request left behind.
C13_Witness ==
  \E r \in Runs :
    LET run == runs[r] IN
    /\ Single(run) /\ Finished(run) /\ Normalized(run)
    /\ Count(run.steps, "transcribe") = 1
    /\ run.response.status = 500
    /\ {Val(run.saved), CompressedPath(Val(run.saved))} \subseteq storage
    /\ \E earlier \in storage : earlier.name # Val(run.saved).name

====
